---------------------------- MODULE Spec2Model ----------------------------
(***************************************************************************)
(* Model of the Taiwan ETF holdings pipeline                               *)
(* (projects/taiwan_etf_holdings/scraper.py and scheduler.py).             *)
(*                                                                         *)
(* Part 1 models the pure function ETFScraper.parse_holdings over parsed   *)
(* documents (BeautifulSoup trees), with Python's str.strip, str.replace   *)
(* and float done character by character.                                  *)
(***************************************************************************)
EXTENDS Integers, Sequences, FiniteSets, TLC

(***************************************************************************)
(* Bounds of the model.                                                    *)
(***************************************************************************)
\* most top-level <table> elements in one document
MaxTables == 2
\* most top-level <tr> elements in one document (over all its tables)
MaxRows == 3

(***************************************************************************)
(* Text.  A Python str is a sequence of one-character strings.             *)
(***************************************************************************)
Digits == {"0", "1", "2", "3", "4", "5", "6", "7", "8", "9"}

DigitVal(c) ==
    CASE c = "0" -> 0 [] c = "1" -> 1 [] c = "2" -> 2 [] c = "3" -> 3
      [] c = "4" -> 4 [] c = "5" -> 5 [] c = "6" -> 6 [] c = "7" -> 7
      [] c = "8" -> 8 [] c = "9" -> 9

\* str.strip(): leading and trailing whitespace removed
RECURSIVE LStrip(_)
LStrip(s) == IF s # <<>> /\ Head(s) = " " THEN LStrip(Tail(s)) ELSE s

RECURSIVE RStrip(_)
RStrip(s) ==
    IF s # <<>> /\ s[Len(s)] = " " THEN RStrip(SubSeq(s, 1, Len(s) - 1)) ELSE s

Strip(s) == RStrip(LStrip(s))

\* str.replace(ch, ''): every occurrence of the character removed
Replace(s, ch) == SelectSeq(s, LAMBDA c : c # ch)

(***************************************************************************)
(* float(str).  The result is the exact decimal [m, e] = m / 10^e with no  *)
(* trailing fractional zero (so "0.50" and "0.5" are the same number), or  *)
(* ValueError.  The grammar is Python's for the characters of the model's  *)
(* alphabet: surrounding whitespace, an optional sign, digits with at most *)
(* one point and a digit on at least one side of it.                       *)
(***************************************************************************)
\* the outcome of a float call that raises ValueError (no number has e < 0)
ValueError == [m |-> 0, e |-> -1]

RECURSIVE DigitsVal(_)
DigitsVal(s) ==
    IF s = <<>> THEN 0
    ELSE 10 * DigitsVal(SubSeq(s, 1, Len(s) - 1)) + DigitVal(s[Len(s)])

RECURSIVE Normal(_, _)
Normal(m, e) ==
    IF e > 0 /\ m % 10 = 0 THEN Normal(m \div 10, e - 1) ELSE [m |-> m, e |-> e]

Number(sign, ip, fp) ==
    LET n == Normal(DigitsVal(ip \o fp), Len(fp))
    IN  [m |-> sign * n.m, e |-> n.e]

Zero == [m |-> 0, e |-> 0]

float(str) ==
    LET t    == Strip(str)
        neg  == t # <<>> /\ Head(t) = "-"
        pos  == t # <<>> /\ Head(t) = "+"
        u    == IF neg \/ pos THEN Tail(t) ELSE t
        dots == {i \in 1..Len(u) : u[i] = "."}
        ok   == /\ u # <<>>
                /\ \A i \in 1..Len(u) : u[i] \in Digits \cup {"."}
                /\ Cardinality(dots) <= 1
                /\ \E i \in 1..Len(u) : u[i] \in Digits
        d    == IF dots = {} THEN Len(u) + 1 ELSE CHOOSE i \in dots : TRUE
    IN  IF ~ok THEN ValueError
        ELSE Number(IF neg THEN -1 ELSE 1, SubSeq(u, 1, d - 1), SubSeq(u, d + 1, Len(u)))

(***************************************************************************)
(* Documents.  BeautifulSoup(html, 'lxml') gives a tree; only its tables   *)
(* matter to parse_holdings.  A table is a sequence of rows, a row is a    *)
(* sequence of cells (td or th), a cell is [text, inner]: its own text     *)
(* and the tables nested in it.                                            *)
(***************************************************************************)
Cell(text) == [text |-> text, inner |-> <<>>]

RECURSIVE Flat(_)
Flat(ss) == IF ss = <<>> THEN <<>> ELSE Head(ss) \o Flat(Tail(ss))

\* Tag.find_all searches all descendants (recursive=True), in document order
RECURSIVE find_all_table(_)
find_all_table(tables) ==
    Flat([i \in 1..Len(tables) |->
        <<tables[i]>> \o
        Flat([j \in 1..Len(tables[i]) |->
            Flat([k \in 1..Len(tables[i][j]) |->
                find_all_table(tables[i][j][k].inner)])])])

RECURSIVE find_all_tr(_)
find_all_tr(table) ==
    Flat([j \in 1..Len(table) |->
        <<table[j]>> \o
        Flat([k \in 1..Len(table[j]) |->
            Flat([n \in 1..Len(table[j][k].inner) |->
                find_all_tr(table[j][k].inner[n])])])])

RECURSIVE find_all_td_th(_)
find_all_td_th(row) ==
    Flat([k \in 1..Len(row) |->
        <<row[k]>> \o
        Flat([n \in 1..Len(row[k].inner) |->
            Flat([j \in 1..Len(row[k].inner[n]) |->
                find_all_td_th(row[k].inner[n][j])])])])

\* Tag.get_text(strip=True): every text node below the tag, stripped, joined
RECURSIVE get_text(_)
get_text(cell) ==
    Strip(cell.text) \o
    Flat([n \in 1..Len(cell.inner) |->
        Flat([j \in 1..Len(cell.inner[n]) |->
            Flat([k \in 1..Len(cell.inner[n][j]) |->
                get_text(cell.inner[n][j][k])])])])

(***************************************************************************)
(* ETFScraper.parse_holdings (scraper.py 165-193).                         *)
(***************************************************************************)
None == "None"

\* the weight_pct expression of line 187
weight_pct_of(cols) ==
    LET text == get_text(cols[Len(cols)])
    IN  IF text # <<>> THEN float(Replace(Replace(text, "%"), ",")) ELSE Zero

\* the Holding(...) constructor call of lines 176-189; weight_pct is
\* ValueError when float raises, and then no Holding is constructed
new_holding(cols, etf_symbol, today, rank) ==
    LET w == weight_pct_of(cols)
    IN       [etf_symbol       |-> etf_symbol,
              trade_date       |-> today,
              holding_date     |-> today,
              rank             |-> rank,
              isin             |-> None,
              issuer_name      |-> get_text(cols[1]),
              security_name    |-> IF Len(cols) > 1 THEN get_text(cols[2]) ELSE <<>>,
              security_type    |-> <<>>,
              shares_held      |-> 0,
              market_value_twd |-> 0,
              weight_pct       |-> w,
              source_url       |-> <<>>]

\* one pass of the inner loop body (lines 173-192) on one row: the holding
\* is appended, or the ValueError is caught and the row skipped (191-192)
parse_row(row, etf_symbol, today, holdings) ==
    LET cols == find_all_td_th(row)
    IN  IF Len(cols) >= 4
        THEN LET h == new_holding(cols, etf_symbol, today, Len(holdings) + 1)
             IN  IF h.weight_pct = ValueError THEN holdings ELSE Append(holdings, h)
        ELSE holdings

\* rows[1:] of line 172
rows_after_first(table) ==
    LET rows == find_all_tr(table)
    IN  IF rows = <<>> THEN <<>> ELSE Tail(rows)

\* parse_rows with the try around the loop, not in it: the first row whose
\* conversion raises ends the loop over the table's rows
RECURSIVE parse_rows_StopsAtError(_, _, _, _)
parse_rows_StopsAtError(rows, etf_symbol, today, holdings) ==
    IF rows = <<>> THEN holdings
    ELSE LET cols == find_all_td_th(Head(rows))
         IN  IF Len(cols) >= 4 /\ weight_pct_of(cols) = ValueError THEN holdings
             ELSE parse_rows_StopsAtError(Tail(rows), etf_symbol, today,
                        parse_row(Head(rows), etf_symbol, today, holdings))

RECURSIVE parse_rows(_, _, _, _)
parse_rows(rows, etf_symbol, today, holdings) ==
    IF rows = <<>> THEN holdings
    ELSE parse_rows(Tail(rows), etf_symbol, today,
                    parse_row(Head(rows), etf_symbol, today, holdings))

\* parse_tables with the list, and so the rank, started afresh for each table
RECURSIVE parse_tables_ResetPerTable(_, _, _, _)
parse_tables_ResetPerTable(tables, etf_symbol, today, holdings) ==
    IF tables = <<>> THEN holdings
    ELSE parse_tables_ResetPerTable(Tail(tables), etf_symbol, today,
            holdings \o parse_rows(rows_after_first(Head(tables)), etf_symbol, today, <<>>))

RECURSIVE parse_tables(_, _, _, _)
parse_tables(tables, etf_symbol, today, holdings) ==
    IF tables = <<>> THEN holdings
    ELSE parse_tables(Tail(tables), etf_symbol, today,
                      parse_rows(rows_after_first(Head(tables)), etf_symbol, today, holdings))

parse_holdings(html, etf_symbol, today) ==
    parse_tables(find_all_table(html), etf_symbol, today, <<>>)

(***************************************************************************)
(* The documents parse_holdings is run on: every document of at most       *)
(* MaxTables top-level tables and MaxRows top-level rows over RowPool.     *)
(***************************************************************************)
RowHdr   == <<Cell(<<"N", "a", "m", "e">>), Cell(<<"S", "e", "c">>),
              Cell(<<"Q", "t", "y">>), Cell(<<"W", "e", "i", "g", "h", "t">>)>>
RowA     == <<Cell(<<"C", "o", " ", "A">>), Cell(<<"S", "e", "c", " ", "A">>),
              Cell(<<"1", "0", "0">>), Cell(<<"1", ".", "2", "3", "%">>)>>
RowB     == <<Cell(<<"C", "o", " ", "B">>), Cell(<<"S", "e", "c", " ", "B">>),
              Cell(<<"5", "0">>), Cell(<<"0", ".", "5", "0", "%">>)>>
\* five cells, whitespace around the texts, a thousands separator
RowC     == <<Cell(<<" ", "C", "o", " ", "C", " ">>), Cell(<<"S", "e", "c", " ", "C">>),
              Cell(<<"7">>), Cell(<<"x">>),
              Cell(<<" ", "1", ",", "2", "3", "4", ".", "5", " ", "%", " ">>)>>
\* three cells
RowShort == <<Cell(<<"C", "o", " ", "S">>), Cell(<<"S", "e", "c", " ", "S">>),
              Cell(<<"2", ".", "5", "%">>)>>
\* a last cell float cannot convert
RowBad   == <<Cell(<<"C", "o", " ", "D">>), Cell(<<"S", "e", "c", " ", "D">>),
              Cell(<<"9">>), Cell(<<"N", "/", "A">>)>>
\* a last cell of whitespace only
RowEmpty == <<Cell(<<"C", "o", " ", "E">>), Cell(<<"S", "e", "c", " ", "E">>),
              Cell(<<"3">>), Cell(<<" ">>)>>
\* one cell, holding a nested table of a header row and one data row
RowNest  == <<[text |-> <<>>, inner |-> << <<RowHdr, RowC>> >>]>>

\* The state holds a document as the names of its rows; Html gives the tree.
RowPool == {"A", "B", "Short", "Bad", "Empty", "Nest"}

Row(name) ==
    CASE name = "A" -> RowA [] name = "B" -> RowB [] name = "Short" -> RowShort
      [] name = "Bad" -> RowBad [] name = "Empty" -> RowEmpty [] name = "Nest" -> RowNest
      [] name = "Hdr" -> RowHdr [] name = "C" -> RowC

Html(doc) == [i \in 1..Len(doc) |-> [j \in 1..Len(doc[i]) |-> Row(doc[i][j])]]

TablesUpTo(n) == UNION {[1..k -> RowPool] : k \in 0..n}

RECURSIVE DocsWith(_, _)
DocsWith(t, r) ==
    IF t = 0 THEN {<<>>}
    ELSE {<<>>} \cup
         UNION {{<<tb>> \o d : d \in DocsWith(t - 1, r - Len(tb))} : tb \in TablesUpTo(r)}

Documents == DocsWith(MaxTables, MaxRows)

Symbols == {"XYZ", "0050"}

(***************************************************************************)
(* Part 2: the pipeline (scraper.py) and the scheduler (scheduler.py).     *)
(***************************************************************************)
\* the days the clock runs through (date.today() is 1..MaxDay)
MaxDay == 2
\* most executions of the pipeline started in one behaviour
MaxRuns == 2
\* most executions the model can hold at the same time
MaxSlots == 2
\* most skipped triggers counted
MaxSkips == 1

Slots == 1..MaxSlots

\* config.yaml 'etfs' (scraper.py 134-135): the configured funds, in order
Etfs ==
    << [symbol |-> "XYZ",  name |-> "Fund XYZ",  provider |-> "P1", type |-> "equity",
        url |-> "https://p1.example/xyz"],
       [symbol |-> "0050", name |-> "Fund 0050", provider |-> "P2", type |-> "equity",
        url |-> "https://p2.example/0050"] >>

Funds == 1..Len(Etfs)

\* What a fund's URL can serve when it is fetched, by name.
PageNames == {"AB", "Bad"}

Page(name) ==
    CASE name = "AB" -> << <<"Hdr", "A", "B">> >>
      [] name = "Bad" -> << <<"Hdr", "Bad">> >>

\* values of html in fetch_etf: None, the empty str, or a page
HtmlValues == {"None", "EmptyStr"} \cup PageNames

\* `if html:` (scraper.py 198)
Truthy(html) == html \notin {"None", "EmptyStr"}

\* fetch_etf after the await (scraper.py 198-200)
fetch_etf_result(html, etf, today) ==
    IF Truthy(html) THEN parse_holdings(Html(Page(html)), etf.symbol, today) ELSE <<>>

\* scheduler.py 69
JobId == "etf_daily_scrape"

\* scheduler.py 72
max_instances == 1

\* CanSubmit without the instance limit
CanSubmit_NoLimit(n) == TRUE

\* APScheduler's submit_job admits a run while the job's running instances
\* are below max_instances
CanSubmit(n) == n < max_instances

\* the names scraper.py binds at module level
ScraperNames == {"ETFConfig", "Holding", "ZyteClient", "DirectClient", "ETFScraper"}

(***************************************************************************)
(* The schedule configuration and ETFScheduler.start's reading of it       *)
(* (scheduler.py 31-33, 55-68).                                            *)
(***************************************************************************)
\* `ch in s`
In(ch, s) == \E i \in 1..Len(s) : s[i] = ch

\* str.split()[0]: the first run of non-whitespace characters
RECURSIVE UpTo(_, _)
UpTo(s, ch) == IF s = <<>> \/ Head(s) = ch THEN <<>> ELSE <<Head(s)>> \o UpTo(Tail(s), ch)

first_word(s) == UpTo(LStrip(s), " ")

\* str.split(':')
RECURSIVE split(_, _)
split(s, ch) ==
    IF ~In(ch, s) THEN <<s>>
    ELSE <<UpTo(s, ch)>> \o split(SubSeq(s, Len(UpTo(s, ch)) + 2, Len(s)), ch)

\* int(str): surrounding whitespace, an optional sign, one or more digits;
\* ok is FALSE when int raises ValueError
int(str) ==
    LET t   == Strip(str)
        neg == t # <<>> /\ Head(t) = "-"
        pos == t # <<>> /\ Head(t) = "+"
        u   == IF neg \/ pos THEN Tail(t) ELSE t
        ok  == u # <<>> /\ \A i \in 1..Len(u) : u[i] \in Digits
    IN  [ok |-> ok, v |-> IF ok THEN (IF neg THEN -1 ELSE 1) * DigitsVal(u) ELSE 0]

\* CronTrigger(hour=..., minute=...) accepts the values of its fields' ranges
CronTrigger(hour, minute) == hour \in 0..23 /\ minute \in 0..59

\* a config.yaml: whether the file exists, whether it has the key 'schedule',
\* whether that has the key 'daily_fetch', and its value
Config(file, schedule, daily_fetch, value) ==
    [file |-> file, schedule |-> schedule, daily_fetch |-> daily_fetch, value |-> value]

Str0830Taipei == <<"0", "8", ":", "3", "0", " ", "A", "s", "i", "a", "/", "T", "a", "i", "p", "e", "i">>
StrNoColon    == <<"0", "8", "3", "0", " ", "A", "s", "i", "a", "/", "T", "a", "i", "p", "e", "i">>
StrNotInt     == <<"a", "b", ":", "c", "d", " ", "A", "s", "i", "a", "/", "T", "a", "i", "p", "e", "i">>
StrHour25     == <<"2", "5", ":", "0", "0", " ", "A", "s", "i", "a", "/", "T", "a", "i", "p", "e", "i">>

DefaultConfig == Config(TRUE, TRUE, TRUE, Str0830Taipei)

Configs ==
    { Config(FALSE, FALSE, FALSE, <<>>),     \* no config.yaml
      Config(TRUE, FALSE, FALSE, <<>>),      \* no 'schedule' key
      DefaultConfig,
      Config(TRUE, TRUE, TRUE, StrNoColon),
      Config(TRUE, TRUE, TRUE, StrNotInt),
      Config(TRUE, TRUE, TRUE, StrHour25) }

\* schedule_config.get('daily_fetch', '08:00 Asia/Taipei') (55-56)
cron_time(cfg) ==
    IF cfg.schedule /\ cfg.daily_fetch THEN cfg.value
    ELSE <<"0", "8", ":", "0", "0", " ", "A", "s", "i", "a", "/", "T", "a", "i", "p", "e", "i">>

\* lines 59-68 of start: the hour and minute handed to add_job, or raises
\* when the unpacking, int or CronTrigger raises ValueError
start_trigger(cfg) ==
    LET ct        == cron_time(cfg)
        time_part == IF In(" ", ct) THEN first_word(ct) ELSE ct
        parts     == split(time_part, ":")
        h         == int(parts[1])
        m         == int(parts[2])
    IN  IF ~In(":", ct) THEN [raises |-> FALSE, hour |-> 8, minute |-> 0]
        ELSE IF Len(parts) # 2 \/ ~h.ok \/ ~m.ok \/ ~CronTrigger(h.v, m.v)
             THEN [raises |-> TRUE, hour |-> 0, minute |-> 0]
             ELSE [raises |-> FALSE, hour |-> h.v, minute |-> m.v]

(***************************************************************************)
(* State.                                                                  *)
(***************************************************************************)
VARIABLES
    p_html,       \* parse_holdings call: the document (row names)
    p_symbol,     \* parse_holdings call: the fund symbol
    p_holdings,   \* parse_holdings call: the list returned
    p_pc,         \* "call" before the call, "return" after it
    u_etfs,       \* _init_db call: self.etfs, the configured funds
    u_before,     \* _init_db call: table etf_master when it was called
    u_pc,         \* "call" before the upsert loop, "return" after its commit
    today,        \* date.today()
    zyte_api_key, \* os.getenv('ZYTE_API_KEY', '')
    etf_master,   \* table etf_master: committed rows
    etf_holdings, \* table etf_holdings: committed rows, in insertion order
    etf_scrape_log, \* table etf_scrape_log: committed rows
    pc,           \* per execution: where it is
    origin,       \* per execution: "main" (scraper.py __main__) or "job"
    html,         \* per execution and fund: what zyte.fetch returned
    zyte_log,     \* per execution and fund: what ZyteClient.fetch logged
    requests,     \* per execution and fund: the network requests issued
    results,      \* per execution and fund: what the fund's task returned
    txn,          \* per execution: rows inserted by save_holdings, uncommitted
    total,        \* per execution: save_holdings' count of executed inserts
    before,       \* per execution: etf_holdings when save_holdings was called
    n_runs,       \* executions started so far
    scraper_exports, \* names the module `scraper` gives to an importer
    config,       \* config.yaml as the scheduler process finds it
    trigger,      \* <<hour, minute>> of the registered job's CronTrigger
    sched_pc,     \* the scheduler process
    jobs,         \* ids of the jobs in the scheduler's job store
    n_listeners,  \* listeners added to the scheduler
    instances,    \* APScheduler's count of running instances of the job
    last_fire,    \* day of the last cron trigger processed
    events,       \* what job_listener has logged
    n_skipped     \* triggers skipped because of max_instances

pvars == <<p_html, p_symbol, p_holdings, p_pc>>
uvars == <<u_etfs, u_before, u_pc>>
dbvars == <<etf_master, etf_holdings, etf_scrape_log>>
xvars == <<pc, origin, html, zyte_log, requests, results, txn, total, before, n_runs>>
svars == <<scraper_exports, config, trigger, sched_pc, jobs, n_listeners, instances, last_fire,
           events, n_skipped>>
envvars == <<today, zyte_api_key>>

vars == <<pvars, uvars, dbvars, xvars, svars, envvars>>

NoHtml == [f \in Funds |-> "pending"]
NoLog == [f \in Funds |-> ""]
NoRequests == [f \in Funds |-> <<>>]
NoResults == [f \in Funds |-> <<>>]

\* no execution exists and the holdings and log tables are empty
RunsIdle ==
    /\ today = 1
    /\ zyte_api_key \in {"", "key"}
    /\ etf_holdings = <<>>
    /\ etf_scrape_log = <<>>
    /\ pc = [e \in Slots |-> "none"]
    /\ origin = [e \in Slots |-> "main"]
    /\ html = [e \in Slots |-> NoHtml]
    /\ zyte_log = [e \in Slots |-> NoLog]
    /\ requests = [e \in Slots |-> NoRequests]
    /\ results = [e \in Slots |-> NoResults]
    /\ txn = [e \in Slots |-> <<>>]
    /\ total = [e \in Slots |-> 0]
    /\ before = [e \in Slots |-> <<>>]
    /\ n_runs = 0

UpsertIdle ==
    /\ u_etfs = <<>>
    /\ u_before = {}
    /\ u_pc = "return"

PipelineInit ==
    /\ etf_master = {}
    /\ RunsIdle
    /\ UpsertIdle

SchedOff ==
    /\ scraper_exports = ScraperNames
    /\ config = DefaultConfig
    /\ trigger = <<>>
    /\ sched_pc = "off"
    /\ jobs = {}
    /\ n_listeners = 0
    /\ instances = 0
    /\ last_fire = 0
    /\ events = <<>>
    /\ n_skipped = 0

ParseIdle ==
    /\ p_html = <<>>
    /\ p_symbol = "XYZ"
    /\ p_holdings = <<>>
    /\ p_pc = "return"

(***************************************************************************)
(* SpecParse: parse_holdings as a function of its arguments.               *)
(***************************************************************************)
ParseInit ==
    /\ p_html \in Documents
    /\ p_symbol \in Symbols
    /\ p_holdings = <<>>
    /\ p_pc = "call"
    /\ PipelineInit /\ zyte_api_key = "key"
    /\ SchedOff

\* holdings = scraper.parse_holdings(html, etf_symbol)
ParseCall ==
    /\ p_pc = "call"
    /\ p_holdings' = parse_holdings(Html(p_html), p_symbol, today)
    /\ p_pc' = "return"
    /\ UNCHANGED <<p_html, p_symbol, uvars, dbvars, xvars, svars, envvars>>

SpecParse == ParseInit /\ [][ParseCall]_vars

(***************************************************************************)
(* ETFScraper: construction and run (scraper.py 119-236).  Every action    *)
(* takes the execution e it belongs to.                                    *)
(***************************************************************************)
\* upsert_master with every column taken from the configuration on conflict
upsert_master_UpdatesAll(master, etf, now) ==
    {r \in master : r.symbol # etf.symbol} \cup
        {[symbol |-> etf.symbol, name |-> etf.name, provider |-> etf.provider,
          type |-> etf.type, zyte_url |-> etf.url, updated_at |-> now]}

\* INSERT ... ON CONFLICT (symbol) DO UPDATE SET name, updated_at (155-160)
upsert_master(master, etf, now) ==
    IF \E r \in master : r.symbol = etf.symbol
    THEN {IF r.symbol = etf.symbol
          THEN [r EXCEPT !.name = etf.name, !.updated_at = now] ELSE r : r \in master}
    ELSE master \cup {[symbol |-> etf.symbol, name |-> etf.name,
                       provider |-> etf.provider, type |-> etf.type,
                       zyte_url |-> etf.url, updated_at |-> now]}

RECURSIVE upsert_all(_, _, _)
upsert_all(master, etfs, now) ==
    IF etfs = <<>> THEN master
    ELSE upsert_all(upsert_master(master, Head(etfs), now), Tail(etfs), now)

\* Construct without the upsert loop of _init_db: the schema is run and the
\* master table left as it is
Construct_NoUpsert(e) ==
    /\ pc[e] = "new"
    /\ pc' = [pc EXCEPT ![e] = "ready"]
    /\ UNCHANGED <<pvars, uvars, dbvars, origin, html, zyte_log, requests, results, txn, total,
                   before, n_runs, svars, envvars>>

\* ETFScraper(...) returns: config loaded, schema run, master upserted and
\* committed (120-128, 147-163)
Construct(e) ==
    /\ pc[e] = "new"
    /\ etf_master' = upsert_all(etf_master, Etfs, today)
    /\ pc' = [pc EXCEPT ![e] = "ready"]
    /\ UNCHANGED <<pvars, uvars, etf_holdings, etf_scrape_log, origin, html, zyte_log, requests, results, txn, total,
                   before, n_runs, svars, envvars>>

\* ETFScraper(...) raises: the config or schema file cannot be read, or the
\* connection, the schema script or an upsert fails; nothing of the upsert
\* transaction is committed
ConstructRaises(e) ==
    /\ pc[e] = "new"
    /\ pc' = [pc EXCEPT ![e] = "raised"]
    /\ UNCHANGED <<pvars, uvars, dbvars, origin, html, zyte_log, requests, results, txn, total, before, n_runs,
                   svars, envvars>>

\* run() calls fetch_all, which creates one fetch_etf task per fund and
\* awaits asyncio.gather (202-205, 230-232)
FetchAll(e) ==
    /\ pc[e] = "ready"
    /\ pc' = [pc EXCEPT ![e] = "fetch"]
    /\ html' = [html EXCEPT ![e] = NoHtml]
    /\ zyte_log' = [zyte_log EXCEPT ![e] = NoLog]
    /\ requests' = [requests EXCEPT ![e] = NoRequests]
    /\ results' = [results EXCEPT ![e] = NoResults]
    /\ UNCHANGED <<pvars, uvars, dbvars, origin, txn, total, before, n_runs, svars, envvars>>

\* TaskResolves where a fund that yields no content ends the gather early:
\* the tasks still pending are cancelled and count as empty
TaskResolves_FailFast(e, f, msg, h) ==
    /\ pc[e] = "fetch"
    /\ html[e][f] = "pending"
    /\ html' = [html EXCEPT ![e] =
                    [g \in Funds |-> IF g = f THEN h
                                     ELSE IF ~Truthy(h) /\ html[e][g] = "pending" THEN "None"
                                     ELSE html[e][g]]]
    /\ zyte_log' = [zyte_log EXCEPT ![e][f] = msg]
    /\ results' = [results EXCEPT ![e][f] = fetch_etf_result(h, Etfs[f], today)]
    /\ UNCHANGED <<pvars, uvars, dbvars, pc, origin, txn, total, before, n_runs, svars, envvars>>

\* TaskResolves with the results collected in the order the tasks complete
\* (as asyncio.as_completed gives them), not in the order of the tasks
TaskResolves_CompletionOrder(e, f, msg, h) ==
    /\ pc[e] = "fetch"
    /\ html[e][f] = "pending"
    /\ html' = [html EXCEPT ![e][f] = h]
    /\ zyte_log' = [zyte_log EXCEPT ![e][f] = msg]
    /\ LET k == 1 + Cardinality({g \in Funds : html[e][g] # "pending"})
       IN  results' = [results EXCEPT ![e][k] = fetch_etf_result(h, Etfs[f], today)]
    /\ UNCHANGED <<pvars, uvars, dbvars, pc, origin, txn, total, before, n_runs, svars, envvars>>

\* the task of fund f resolves: zyte.fetch logged msg and returned h, and
\* fetch_etf returns (195-200)
TaskResolves(e, f, msg, h) ==
    /\ pc[e] = "fetch"
    /\ html[e][f] = "pending"
    /\ html' = [html EXCEPT ![e][f] = h]
    /\ zyte_log' = [zyte_log EXCEPT ![e][f] = msg]
    /\ results' = [results EXCEPT ![e][f] = fetch_etf_result(h, Etfs[f], today)]
    /\ UNCHANGED <<pvars, uvars, dbvars, pc, origin, txn, total, before, n_runs, svars, envvars>>

\* the messages ZyteClient.fetch logs (60, 79, 88, 91, 95)
LogNoKey == "No Zyte API key configured"
LogStatus == "Zyte API error"
LogException == "Zyte fetch error"
LogNoBody == "No httpResponseBody in Zyte response"
LogFetched == "Successfully fetched"

\* session.post(self.api_url, ...) of ZyteClient.fetch (71-75): the one
\* network request of a fetch_etf task
Post(e, f) == requests' = [requests EXCEPT ![e][f] = Append(@, "zyte.post")]

\* ZyteNoKey without the check of the key: the request is sent with an empty
\* credential and the service refuses it
ZyteNoKey_Posts(e, f) ==
    /\ zyte_api_key = ""
    /\ Post(e, f)
    /\ TaskResolves(e, f, LogStatus, "None")

\* ZyteClient.fetch, no api key (59-61): returns before the try block
ZyteNoKey(e, f) ==
    /\ zyte_api_key = ""
    /\ TaskResolves(e, f, LogNoKey, "None")
    /\ UNCHANGED requests

\* ZyteStatusError followed by a second attempt through the direct fetcher
ZyteStatusError_Retry(e, f) ==
    /\ zyte_api_key # ""
    /\ requests' = [requests EXCEPT ![e][f] = @ \o <<"zyte.post", "direct.get">>]
    /\ TaskResolves(e, f, LogStatus, "None")

\* ZyteClient.fetch, resp.status != 200 (77-80)
ZyteStatusError(e, f) ==
    /\ zyte_api_key # ""
    /\ Post(e, f)
    /\ TaskResolves(e, f, LogStatus, "None")

\* ZyteException with the except clause missing: the exception leaves the
\* task, gather, fetch_all and run
ZyteException_Propagates(e, f) ==
    /\ zyte_api_key # ""
    /\ pc[e] = "fetch"
    /\ html[e][f] = "pending"
    /\ html' = [html EXCEPT ![e][f] = "None"]
    /\ zyte_log' = [zyte_log EXCEPT ![e][f] = LogException]
    /\ Post(e, f)
    /\ pc' = [pc EXCEPT ![e] = "raised"]
    /\ UNCHANGED <<pvars, uvars, dbvars, origin, results, txn, total, before, n_runs, svars, envvars>>

\* ZyteClient.fetch, an exception of the session, the post, resp.json or
\* b64decode, caught at 94-96
ZyteException(e, f) ==
    /\ zyte_api_key # ""
    /\ Post(e, f)
    /\ TaskResolves(e, f, LogException, "None")

\* ZyteClient.fetch, no httpResponseBody in the response (85, 91-92)
ZyteNoBody(e, f) ==
    /\ zyte_api_key # ""
    /\ Post(e, f)
    /\ TaskResolves(e, f, LogNoBody, "None")

\* ZyteClient.fetch returns the decoded body (86-89): a page, or the empty
\* str when errors='ignore' drops every byte
ZyteOk(e, f) ==
    /\ zyte_api_key # ""
    /\ Post(e, f)
    /\ \E h \in PageNames \cup {"EmptyStr"} : TaskResolves(e, f, LogFetched, h)

\* AllResolved as a first-completed join
AllResolved_First(e) == \E f \in Funds : html[e][f] # "pending"

\* every task of the gather has resolved
AllResolved(e) == \A f \in Funds : html[e][f] # "pending"

\* Batch of a dict that kept the first fund's entry only
Batch_FirstFundOnly(e) == results[e][1]

\* dict(zip(keys, values)) (206): one entry per distinct key, a later pair
\* replacing the value of an earlier pair with the same key
dict_zip(keys, values) ==
    [k \in {keys[i] : i \in 1..Len(keys)} |->
        values[CHOOSE i \in 1..Len(keys) :
                  keys[i] = k /\ \A j \in 1..Len(keys) : keys[j] = k => j <= i]]

\* the keys of that dict in its iteration order, the order of first insertion
RECURSIVE dict_keys(_)
dict_keys(keys) ==
    IF keys = <<>> THEN <<>>
    ELSE LET front == dict_keys(SubSeq(keys, 1, Len(keys) - 1))
         IN  IF In(keys[Len(keys)], front) THEN front ELSE Append(front, keys[Len(keys)])

\* [e.symbol for e in self.etfs] (206)
symbols == [f \in Funds |-> Etfs[f].symbol]

\* what fetch_all returns (205-206): gather gives the results in the order of
\* the tasks, whatever the order they completed in
fetch_all_result(e) == dict_zip(symbols, results[e])

\* holdings_dict.items() (212-213): the funds in the dict's order, each
\* fund's holdings in list order
Batch(e) ==
    LET ks == dict_keys(symbols)
    IN  Flat([i \in 1..Len(ks) |-> fetch_all_result(e)[ks[i]]])

\* gather returns, fetch_all returns the dict, run calls save_holdings, which
\* opens its connection (205-206, 232-233, 209-211)
SaveBegin(e) ==
    /\ pc[e] = "fetch"
    /\ AllResolved(e)
    /\ pc' = [pc EXCEPT ![e] = "save"]
    /\ txn' = [txn EXCEPT ![e] = <<>>]
    /\ total' = [total EXCEPT ![e] = 0]
    /\ before' = [before EXCEPT ![e] = etf_holdings]
    /\ UNCHANGED <<pvars, uvars, dbvars, origin, html, zyte_log, requests, results, n_runs, svars, envvars>>

\* SaveInsert on a connection in autocommit mode
SaveInsert_Autocommit(e) ==
    /\ pc[e] = "save"
    /\ total[e] < Len(Batch(e))
    /\ etf_holdings' = Append(etf_holdings, Batch(e)[total[e] + 1])
    /\ total' = [total EXCEPT ![e] = @ + 1]
    /\ UNCHANGED <<pvars, uvars, etf_master, etf_scrape_log, pc, origin, html, zyte_log, requests, results,
                   txn, before, n_runs, svars, envvars>>

\* one cursor.execute of the INSERT (214-225)
SaveInsert(e) ==
    /\ pc[e] = "save"
    /\ Len(txn[e]) < Len(Batch(e))
    /\ txn' = [txn EXCEPT ![e] = Append(@, Batch(e)[Len(@) + 1])]
    /\ total' = [total EXCEPT ![e] = @ + 1]
    /\ UNCHANGED <<pvars, uvars, dbvars, pc, origin, html, zyte_log, requests, results, before, n_runs,
                   svars, envvars>>

\* SaveCommit as delete-then-insert: the rows already stored for a fund and
\* trade date of the batch are replaced
SaveCommit_Replaces(e) ==
    /\ pc[e] = "save"
    /\ Len(txn[e]) = Len(Batch(e))
    /\ etf_holdings' =
          SelectSeq(etf_holdings,
                    LAMBDA r : ~\E i \in 1..Len(txn[e]) :
                                  /\ txn[e][i].etf_symbol = r.etf_symbol
                                  /\ txn[e][i].trade_date = r.trade_date) \o txn[e]
    /\ txn' = [txn EXCEPT ![e] = <<>>]
    /\ pc' = [pc EXCEPT ![e] = "done"]
    /\ UNCHANGED <<pvars, uvars, etf_master, etf_scrape_log, origin, html, zyte_log, requests, results,
                   total, before, n_runs, svars, envvars>>

\* conn.commit() (226), then close, the log lines of run, and run returns
SaveCommit(e) ==
    /\ pc[e] = "save"
    /\ Len(txn[e]) = Len(Batch(e))
    /\ etf_holdings' = etf_holdings \o txn[e]
    /\ txn' = [txn EXCEPT ![e] = <<>>]
    /\ pc' = [pc EXCEPT ![e] = "done"]
    /\ UNCHANGED <<pvars, uvars, etf_master, etf_scrape_log, origin, html, zyte_log, requests, results,
                   total, before, n_runs, svars, envvars>>

\* psycopg2 raises in connect, execute or commit: the exception leaves
\* save_holdings and run, the connection is dropped without a commit and
\* the server rolls its transaction back
SaveRaises(e) ==
    /\ pc[e] = "save"
    /\ txn' = [txn EXCEPT ![e] = <<>>]
    /\ pc' = [pc EXCEPT ![e] = "raised"]
    /\ UNCHANGED <<pvars, uvars, dbvars, origin, html, zyte_log, requests, results, total, before, n_runs,
                   svars, envvars>>

\* the clock passes midnight
Midnight ==
    /\ today < MaxDay
    /\ today' = today + 1
    /\ UNCHANGED <<pvars, uvars, dbvars, xvars, svars, zyte_api_key>>

\* the state of an execution slot that holds no execution
Cleared(e) ==
    /\ pc' = [pc EXCEPT ![e] = "none"]
    /\ origin' = [origin EXCEPT ![e] = "main"]
    /\ html' = [html EXCEPT ![e] = NoHtml]
    /\ zyte_log' = [zyte_log EXCEPT ![e] = NoLog]
    /\ requests' = [requests EXCEPT ![e] = NoRequests]
    /\ results' = [results EXCEPT ![e] = NoResults]
    /\ txn' = [txn EXCEPT ![e] = <<>>]
    /\ total' = [total EXCEPT ![e] = 0]
    /\ before' = [before EXCEPT ![e] = <<>>]

(***************************************************************************)
(* SpecUpsert: the upsert loop of _init_db (scraper.py 154-161) as a       *)
(* function of the stored master table and the configured funds.           *)
(***************************************************************************)
\* most entries of the configured fund list
MaxEtfs == 2

\* a fund of the configuration as it is now: the fund of Etfs, or the same
\* symbol with every other field changed
EtfPool ==
    {Etfs[f] : f \in Funds} \cup
    {[symbol |-> Etfs[f].symbol, name |-> "Renamed", provider |-> "P9", type |-> "bond",
      url |-> "https://p9.example/moved"] : f \in Funds}

EtfLists == UNION {[1..k -> EtfPool] : k \in 0..MaxEtfs}

\* the row an earlier insert of a fund stored
StoredRow(etf) ==
    [symbol |-> etf.symbol, name |-> etf.name, provider |-> etf.provider,
     type |-> etf.type, zyte_url |-> etf.url, updated_at |-> 0]

\* the row of a fund that is configured no longer
RowOld == [symbol |-> "OLD", name |-> "Fund OLD", provider |-> "P0", type |-> "equity",
           zyte_url |-> "https://p0.example/old", updated_at |-> 0]

\* the stored tables: symbol is the primary key
MasterTables ==
    {t \in SUBSET ({StoredRow(c) : c \in EtfPool} \cup {RowOld}) :
        \A r1, r2 \in t : r1.symbol = r2.symbol => r1 = r2}

UpsertInit ==
    /\ etf_master \in MasterTables
    /\ u_etfs \in EtfLists
    /\ u_before = etf_master
    /\ u_pc = "call"
    /\ RunsIdle /\ zyte_api_key = "key"
    /\ ParseIdle
    /\ SchedOff

\* the loop of lines 154-160 and the commit of line 161
UpsertCall ==
    /\ u_pc = "call"
    /\ etf_master' = upsert_all(etf_master, u_etfs, today)
    /\ u_pc' = "return"
    /\ UNCHANGED <<pvars, u_etfs, u_before, etf_holdings, etf_scrape_log, xvars, svars, envvars>>

SpecUpsert == UpsertInit /\ [][UpsertCall]_vars

(***************************************************************************)
(* Spec: `python scraper.py` (scraper.py 238-240), run again and again,    *)
(* one process at a time.                                                  *)
(***************************************************************************)
\* the process starts: scraper = ETFScraper() is about to be called
MainStart ==
    /\ \A e \in Slots : pc[e] = "none"
    /\ n_runs < MaxRuns
    /\ pc' = [pc EXCEPT ![1] = "new"]
    /\ origin' = [origin EXCEPT ![1] = "main"]
    /\ n_runs' = n_runs + 1
    /\ UNCHANGED <<pvars, uvars, dbvars, html, zyte_log, requests, results, txn, total, before, svars, envvars>>

\* the process ends, with run returned or with the exception uncaught
MainExit ==
    /\ pc[1] \in {"done", "raised"}
    /\ origin[1] = "main"
    /\ Cleared(1)
    /\ UNCHANGED <<pvars, uvars, dbvars, n_runs, svars, envvars>>

Pipeline(e) ==
    \/ Construct(e)
    \/ ConstructRaises(e)
    \/ FetchAll(e)
    \/ \E f \in Funds : ZyteNoKey(e, f)
    \/ \E f \in Funds : ZyteStatusError(e, f)
    \/ \E f \in Funds : ZyteException(e, f)
    \/ \E f \in Funds : ZyteNoBody(e, f)
    \/ \E f \in Funds : ZyteOk(e, f)
    \/ SaveBegin(e)
    \/ SaveInsert(e)
    \/ SaveCommit(e)
    \/ SaveRaises(e)

Init == ParseIdle /\ PipelineInit /\ SchedOff

Next ==
    \/ MainStart
    \/ MainExit
    \/ Midnight
    \/ \E e \in Slots : Pipeline(e)

Spec == Init /\ [][Next]_vars

(***************************************************************************)
(* SpecSched: `python scheduler.py` (scheduler.py 90-107) with APScheduler *)
(* 3.x's AsyncIOScheduler.  The job body runs as a coroutine on the event  *)
(* loop that also runs the scheduler's timer.                              *)
(***************************************************************************)
\* `from scraper import PostgresETFScraper` (scheduler.py 16)
SchedImport ==
    /\ sched_pc = "off"
    /\ sched_pc' = IF "PostgresETFScraper" \in scraper_exports
                   THEN "imported" ELSE "ImportError"
    /\ UNCHANGED <<pvars, uvars, dbvars, xvars, envvars, scraper_exports, config, trigger, jobs, n_listeners,
                   instances, last_fire, events, n_skipped>>

\* scheduler = ETFScheduler() (scheduler.py 25-33, 99): _load_config opens
\* the file, and FileNotFoundError ends the process
SchedNew ==
    /\ sched_pc = "imported"
    /\ sched_pc' = IF config.file THEN "constructed" ELSE "raised"
    /\ UNCHANGED <<pvars, uvars, dbvars, xvars, envvars, scraper_exports, config, trigger, jobs, n_listeners,
                   instances, last_fire, events, n_skipped>>

\* scheduler.start() (scheduler.py 53-84, 100): the trigger time is read
\* from the config; then add_job with replace_existing, add_listener, start
\* and run_forever (105).  A ValueError of lines 62-68 ends the process
\* before add_job.
SchedStart ==
    /\ sched_pc = "constructed"
    /\ LET t == start_trigger(config)
       IN  IF t.raises
           THEN /\ sched_pc' = "raised"
                /\ UNCHANGED <<jobs, n_listeners, trigger>>
           ELSE /\ jobs' = (jobs \ {JobId}) \cup {JobId}
                /\ trigger' = <<t.hour, t.minute>>
                /\ n_listeners' = n_listeners + 1
                /\ sched_pc' = "running"
    /\ UNCHANGED <<pvars, uvars, dbvars, xvars, envvars, scraper_exports, config, instances,
                   last_fire, events, n_skipped>>

\* The timer callback runs only between the steps of the event loop: no job
\* coroutine is inside a synchronous stretch (the constructor, save_holdings)
\* or has finished with its completion callback still to run.
LoopFree == \A e \in Slots : origin[e] = "job" => pc[e] \in {"none", "fetch"}

FreeSlots == {e \in Slots : pc[e] = "none"}

\* the day's trigger is due and the scheduler processes it
CronDue ==
    /\ sched_pc = "running"
    /\ JobId \in jobs
    /\ last_fire < today
    /\ LoopFree

\* the trigger fires and the executor starts run_scraper (scheduler.py 42-46)
CronFireRun ==
    /\ CronDue
    /\ CanSubmit(instances)
    /\ n_runs < MaxRuns
    /\ FreeSlots # {}
    /\ LET e == CHOOSE x \in FreeSlots : \A y \in FreeSlots : x <= y
       IN  /\ pc' = [pc EXCEPT ![e] = "new"]
           /\ origin' = [origin EXCEPT ![e] = "job"]
    /\ instances' = instances + 1
    /\ n_runs' = n_runs + 1
    /\ last_fire' = today
    /\ UNCHANGED <<pvars, uvars, dbvars, html, zyte_log, requests, results, txn, total, before, envvars, scraper_exports, config, trigger,
                   sched_pc, jobs, n_listeners, events, n_skipped>>

\* the trigger fires with max_instances reached: the run is skipped
CronFireSkip ==
    /\ CronDue
    /\ ~CanSubmit(instances)
    /\ n_skipped < MaxSkips
    /\ n_skipped' = n_skipped + 1
    /\ last_fire' = today
    /\ UNCHANGED <<pvars, uvars, dbvars, xvars, envvars, scraper_exports, config, trigger, sched_pc, jobs,
                   n_listeners, instances, events>>

\* what job_listener logs for an event (scheduler.py 35-40)
job_listener(exception) == IF exception THEN "failed" ELSE "executed successfully"

\* JobDone where an exception of the job body is not caught by the executor:
\* it ends the event loop and with it the scheduler
JobDone_ErrorStopsLoop(e) ==
    /\ pc[e] \in {"done", "raised"}
    /\ origin[e] = "job"
    /\ events' = events \o [i \in 1..n_listeners |-> job_listener(pc[e] = "raised")]
    /\ instances' = instances - 1
    /\ sched_pc' = IF pc[e] = "raised" THEN "stopped" ELSE sched_pc
    /\ Cleared(e)
    /\ UNCHANGED <<pvars, uvars, dbvars, n_runs, envvars, scraper_exports, config, trigger, jobs,
                   n_listeners, last_fire, n_skipped>>

\* JobDone where run_scraper logs the exception and does not re-raise it:
\* the executor sees every execution return
JobDone_Swallows(e) ==
    /\ pc[e] \in {"done", "raised"}
    /\ origin[e] = "job"
    /\ events' = events \o [i \in 1..n_listeners |-> job_listener(FALSE)]
    /\ instances' = instances - 1
    /\ Cleared(e)
    /\ UNCHANGED <<pvars, uvars, dbvars, n_runs, envvars, scraper_exports, config, trigger, sched_pc, jobs,
                   n_listeners, last_fire, n_skipped>>

\* run_scraper returns or re-raises (scheduler.py 47-51); the executor's
\* completion callback releases the instance and dispatches
\* EVENT_JOB_EXECUTED or EVENT_JOB_ERROR to every listener
JobDone(e) ==
    /\ pc[e] \in {"done", "raised"}
    /\ origin[e] = "job"
    /\ events' = events \o [i \in 1..n_listeners |-> job_listener(pc[e] = "raised")]
    /\ instances' = instances - 1
    /\ Cleared(e)
    /\ UNCHANGED <<pvars, uvars, dbvars, n_runs, envvars, scraper_exports, config, trigger, sched_pc, jobs,
                   n_listeners, last_fire, n_skipped>>

SchedInit ==
    /\ ParseIdle
    /\ PipelineInit
    /\ scraper_exports \in {ScraperNames, ScraperNames \cup {"PostgresETFScraper"}}
    /\ config \in Configs
    /\ trigger = <<>>
    /\ sched_pc = "off"
    /\ jobs = {}
    /\ n_listeners = 0
    /\ instances = 0
    /\ last_fire = 0
    /\ events = <<>>
    /\ n_skipped = 0

SchedNext ==
    \/ SchedImport
    \/ SchedNew
    \/ SchedStart
    \/ CronFireRun
    \/ CronFireSkip
    \/ Midnight
    \/ \E e \in Slots : JobDone(e)
    \/ \E e \in Slots : Pipeline(e)

SpecSched == SchedInit /\ [][SchedNext]_vars

\* SpecSched with the fairness of its environment: the clock advances, and
\* the event loop runs the callbacks that are ready (the due timer, the
\* completion callback of a finished job)
SpecSchedLive ==
    /\ SchedInit
    /\ [][SchedNext]_vars
    /\ WF_vars(Midnight)
    /\ WF_vars(CronFireRun)
    /\ \A e \in Slots : WF_vars(JobDone(e))

(***************************************************************************)
(* Properties.                                                             *)
(***************************************************************************)
\* the rows of a table or list that belong to one fund
RowsOf(rows, symbol) == SelectSeq(rows, LAMBDA r : r.etf_symbol = symbol)

\* the rows committed since execution e called save_holdings
Added(e) == SubSeq(etf_holdings, Len(before[e]) + 1, Len(etf_holdings))

\* the executions of the scheduled job whose body has started and whose
\* completion the scheduler has not yet processed
RunningJobs == {e \in Slots : origin[e] = "job" /\ pc[e] # "none"}

OwnResult(e, f) ==
    IF zyte_log[e][f] = LogFetched /\ Truthy(html[e][f])
    THEN {parse_holdings(Html(Page(html[e][f])), Etfs[f].symbol, d) : d \in 1..today}
    ELSE {<<>>}

\* C2: failure isolation.  Every resolved task ran its own fetch and its
\* result is what its own fetch gives: the empty list when the fetch yielded
\* no content, the parse of its own page otherwise, whatever happened to the
\* other funds.  save_holdings inserts for each fund exactly the rows of its
\* own list (none for a failed fund), and a committed run has added exactly
\* those.
C2_FailureIsolation ==
    \A e \in Slots : \A f \in Funds :
        /\ html[e][f] # "pending" =>
              /\ zyte_log[e][f] # ""
              /\ results[e][f] \in OwnResult(e, f)
              /\ ~Truthy(html[e][f]) => results[e][f] = <<>>
        /\ pc[e] = "save" =>
              /\ Len(RowsOf(txn[e], Etfs[f].symbol)) <= Len(results[e][f])
              /\ RowsOf(txn[e], Etfs[f].symbol) =
                    SubSeq(results[e][f], 1, Len(RowsOf(txn[e], Etfs[f].symbol)))
        /\ pc[e] = "done" => RowsOf(Added(e), Etfs[f].symbol) = results[e][f]

\* C2 witness: a committed run in which one fund's fetch yielded no content
\* and another fund's rows were inserted.
C2_Witness ==
    \E e \in Slots : \E f, g \in Funds :
        /\ pc[e] = "done"
        /\ html[e][f] = "None"
        /\ results[e][g] # <<>>
        /\ RowsOf(Added(e), Etfs[g].symbol) = results[e][g]
        /\ RowsOf(Added(e), Etfs[f].symbol) = <<>>

\* the scrape-log rows of one fund and one date
LogRows(symbol, day) ==
    {i \in 1..Len(etf_scrape_log) :
        etf_scrape_log[i].etf_symbol = symbol /\ etf_scrape_log[i].scrape_date = day}

\* C3: after every executed run, exactly one scrape-log row exists for every
\* configured fund and the run's date.
C3_OneLogRowPerFundAndRun ==
    \A e \in Slots :
        (pc[e] \in {"done", "raised"} /\ \A f \in Funds : html[e][f] # "pending") =>
            \A f \in Funds : \E d \in 1..today : Cardinality(LogRows(Etfs[f].symbol, d)) = 1

\* C4: save_holdings starts, and rows are inserted or committed, only when
\* the task of every configured fund has resolved.
C4_FullJoin ==
    /\ [](\A e \in Slots :
            (pc[e] = "save" \/ txn[e] # <<>>) => \A f \in Funds : html[e][f] # "pending")
    /\ [][etf_holdings' # etf_holdings =>
            \E e \in Slots : /\ pc[e] = "save"
                             /\ pc'[e] = "done"
                             /\ \A f \in Funds : html[e][f] # "pending"]_vars

\* C4 witness: rows are being inserted, after tasks that resolved with and
\* without holdings.
C4_Witness ==
    \E e \in Slots : \E f, g \in Funds :
        /\ pc[e] = "save"
        /\ txn[e] # <<>>
        /\ results[e][f] # <<>>
        /\ results[e][g] = <<>>

\* C5: save_holdings is all-or-nothing.  While it runs the table is as it
\* was when it was called; when it raises, after any number of inserts, the
\* table is still that; only the commit adds the rows, all of them.
C5_AllOrNothing ==
    \A e \in Slots :
        /\ pc[e] = "save" => etf_holdings = before[e]
        /\ (pc[e] = "raised" /\ \A f \in Funds : html[e][f] # "pending") =>
              etf_holdings = before[e]
        /\ pc[e] = "done" => etf_holdings = before[e] \o Batch(e)

\* C5 witness: save_holdings raised after some inserts, on a table that
\* already held rows.
C5_Witness ==
    \E e \in Slots :
        /\ pc[e] = "raised"
        /\ total[e] > 0
        /\ total[e] < Len(Batch(e))
        /\ before[e] # <<>>

C8_RanksSequential ==
    p_pc = "return" => \A i \in 1..Len(p_holdings) : p_holdings[i].rank = i

\* C8 witness: a call returned three holdings from a document of two tables
\* (one nested in the other) in which a row of fewer than 4 cells was
\* dropped and a row float could not convert was skipped.
C8_Witness ==
    /\ p_pc = "return"
    /\ Len(p_holdings) = 3
    /\ \E i \in 1..Len(p_html) :
          /\ Len(p_html[i]) = 3
          /\ p_html[i][2] = "Short"
          /\ p_html[i][3] = "Nest"

\* the rows the claims call candidates: in every table of the document, the
\* rows after the table's first that have at least 4 cells of their own
CandidatesOfTable(table) ==
    SelectSeq(IF table = <<>> THEN <<>> ELSE Tail(table), LAMBDA row : Len(row) >= 4)

CandidateRows(doc) ==
    LET tables == find_all_table(doc)
    IN  Flat([i \in 1..Len(tables) |-> CandidatesOfTable(tables[i])])

\* C9: parse_holdings returns no more holdings than the document has
\* non-header rows of at least 4 cells (a row of fewer cells gives none).
C9_NoHoldingFromShortRow ==
    p_pc = "return" => Len(p_holdings) <= Len(CandidateRows(Html(p_html)))

\* the weight the claim gives a row: its last cell without percent sign and
\* thousands separators
ClaimedWeight(row) == float(Replace(Replace(Strip(row[Len(row)].text), "%"), ","))

\* C10: parse_holdings returns, in document order, one holding per candidate
\* row, with the given symbol, the first cell as issuer name, the second as
\* security name and the last cell as weight.
C10_OneHoldingPerCandidateRow ==
    p_pc = "return" =>
        LET cand == CandidateRows(Html(p_html))
        IN  /\ Len(p_holdings) = Len(cand)
            /\ \A i \in 1..Len(cand) :
                  /\ p_holdings[i].etf_symbol = p_symbol
                  /\ p_holdings[i].issuer_name = Strip(cand[i][1].text)
                  /\ p_holdings[i].security_name = Strip(cand[i][2].text)
                  /\ ClaimedWeight(cand[i]) # ValueError =>
                        p_holdings[i].weight_pct = ClaimedWeight(cand[i])

\* C10, the spec's concrete case: for fund "XYZ" and a table of a header row
\* and the rows of Co A and Co B, two holdings: rank 1, Co A, 1.23 and rank 2,
\* Co B, 0.50.
C10_ConcreteCase ==
    (p_pc = "return" /\ p_symbol = "XYZ" /\ p_html = << <<"B", "A", "B">> >>) =>
        /\ Len(p_holdings) = 2
        /\ p_holdings[1].rank = 1
        /\ p_holdings[1].issuer_name = <<"C", "o", " ", "A">>
        /\ p_holdings[1].weight_pct = [m |-> 123, e |-> 2]
        /\ p_holdings[2].rank = 2
        /\ p_holdings[2].issuer_name = <<"C", "o", " ", "B">>
        /\ p_holdings[2].weight_pct = [m |-> 5, e |-> 1]

\* the candidate rows whose last cell is empty or is not a number once the
\* percent sign and the thousands separators are removed
Unconvertible(row) == ClaimedWeight(row) = ValueError

\* C11: every candidate row whose last cell is empty or cannot be converted
\* still gives a holding, with weight_pct zero.
C11_WeightDefaultsToZero ==
    p_pc = "return" =>
        LET cand == CandidateRows(Html(p_html))
        IN  \A i \in 1..Len(cand) :
                Unconvertible(cand[i]) =>
                    \E k \in 1..Len(p_holdings) :
                        /\ p_holdings[k].issuer_name = Strip(cand[i][1].text)
                        /\ p_holdings[k].weight_pct = Zero

\* C12: with no api key configured, every ZyteClient.fetch call returns None
\* at once (the only thing it does is log the missing key) and no network
\* request is issued.
C12_NoKeyNoRequest ==
    zyte_api_key = "" =>
        \A e \in Slots : \A f \in Funds :
            /\ requests[e][f] = <<>>
            /\ html[e][f] # "pending" =>
                  /\ html[e][f] = "None"
                  /\ zyte_log[e][f] = LogNoKey
                  /\ results[e][f] = <<>>

\* C12 witness: with no api key, a run whose fetches all returned None has
\* been committed.
C12_Witness ==
    /\ zyte_api_key = ""
    /\ \E e \in Slots :
          /\ pc[e] = "done"
          /\ \A f \in Funds : zyte_log[e][f] = LogNoKey /\ html[e][f] = "None"

\* the transport failures of ZyteClient.fetch
TransportFailures == {LogStatus, LogException, LogNoBody}

\* C16: in one run at most one network request is issued for a fund, through
\* the rendering service and never through the direct fetcher; a task whose
\* request failed is resolved, so the fund is not fetched again in that run.
C16_FetchedAtMostOnce ==
    \A e \in Slots : \A f \in Funds :
        /\ Len(requests[e][f]) <= 1
        /\ \A i \in 1..Len(requests[e][f]) : requests[e][f][i] = "zyte.post"
        /\ html[e][f] = "pending" => requests[e][f] = <<>>
        /\ zyte_log[e][f] \in TransportFailures =>
              (requests[e][f] = <<"zyte.post">> /\ html[e][f] = "None")

\* C16 witness: a run has been committed in which one fund's request met a
\* transport failure and was the fund's only request.
C16_Witness ==
    \E e \in Slots : \E f \in Funds :
        /\ pc[e] = "done"
        /\ zyte_log[e][f] \in TransportFailures
        /\ requests[e][f] = <<"zyte.post">>

\* the stored rows with the (fund, trade date, rank) of row h
SameKey(h) ==
    {j \in 1..Len(etf_holdings) :
        /\ etf_holdings[j].etf_symbol = h.etf_symbol
        /\ etf_holdings[j].trade_date = h.trade_date
        /\ etf_holdings[j].rank = h.rank}

\* C13: reruns append.  No step deletes or replaces a stored holdings row
\* (the table only grows at its end), and when a run is committed on a table
\* that held exactly the rows this run inserts (the same trade date, the same
\* content), every (fund, trade date, rank) of the run is stored twice.
C13_RerunsAppend ==
    /\ [][/\ Len(etf_holdings') >= Len(etf_holdings)
          /\ SubSeq(etf_holdings', 1, Len(etf_holdings)) = etf_holdings]_vars
    /\ [](\A e \in Slots :
            (pc[e] = "done" /\ before[e] = Batch(e)) =>
                /\ etf_holdings = Batch(e) \o Batch(e)
                /\ \A i \in 1..Len(Batch(e)) : Cardinality(SameKey(Batch(e)[i])) = 2)

\* C13 witness: the second of two runs with the same content on the same day
\* has been committed, and the holdings of both funds are stored twice.
C13_Witness ==
    \E e \in Slots :
        /\ pc[e] = "done"
        /\ n_runs = 2
        /\ before[e] = Batch(e)
        /\ \A f \in Funds : results[e][f] # <<>>
        /\ Len(etf_holdings) = 2 * Len(Batch(e))

\* a schedule string of the form HH:MM, a space and a timezone name
WellFormedSchedule(s) ==
    /\ Len(s) >= 7
    /\ \A i \in {1, 2, 4, 5} : s[i] \in Digits
    /\ s[3] = ":"
    /\ s[6] = " "
    /\ \A i \in 7..Len(s) : s[i] # " "
    /\ DigitsVal(SubSeq(s, 1, 2)) <= 23
    /\ DigitsVal(SubSeq(s, 4, 5)) <= 59

\* the configuration failures: the file is missing, the schedule field is
\* missing, or the schedule string is malformed
ConfigFailure ==
    \/ ~config.file
    \/ ~(config.schedule /\ config.daily_fetch)
    \/ ~WellFormedSchedule(config.value)

ConfiguredSymbols == {Etfs[f].symbol : f \in Funds}

\* C17: when save_holdings has committed, the rows the run added are, fund by
\* fund, exactly the fund's parsed list (every holding once, in order, none
\* dropped and none of another symbol), and two rows the run added for the
\* same fund and trade date never have the same rank.
C17_CommittedRunComplete ==
    \A e \in Slots :
        pc[e] = "done" =>
            LET added == Added(e)
            IN  /\ \A f \in Funds : RowsOf(added, Etfs[f].symbol) = results[e][f]
                /\ \A i \in 1..Len(added) : added[i].etf_symbol \in ConfiguredSymbols
                /\ \A i, j \in 1..Len(added) :
                      (/\ i # j
                       /\ added[i].etf_symbol = added[j].etf_symbol
                       /\ added[i].trade_date = added[j].trade_date) =>
                          added[i].rank # added[j].rank

\* C17 witness: a committed run added the two holdings of each of the two
\* funds to a table that already held rows.
C17_Witness ==
    \E e \in Slots :
        /\ pc[e] = "done"
        /\ before[e] # <<>>
        /\ Len(Added(e)) = 4
        /\ \A f \in Funds : Len(results[e][f]) = 2

\* the configured entries of a symbol, by position in the list
EntriesOf(symbol) == {i \in 1..Len(u_etfs) : u_etfs[i].symbol = symbol}

\* C18: after the upsert, every row that was stored is still stored, once,
\* with its provider, type and source URL as they were; a row whose symbol
\* is configured has the name of the configuration and the time of the
\* upsert, a row whose symbol is not configured is unchanged.
C18_UpsertTouchesNameOnly ==
    u_pc = "return" =>
        \A r \in u_before :
            /\ Cardinality({r2 \in etf_master : r2.symbol = r.symbol}) = 1
            /\ \E r2 \in etf_master :
                  /\ r2.symbol = r.symbol
                  /\ r2.provider = r.provider
                  /\ r2.type = r.type
                  /\ r2.zyte_url = r.zyte_url
                  /\ IF EntriesOf(r.symbol) = {} THEN r2 = r
                     ELSE /\ r2.updated_at = today
                          /\ \E i \in EntriesOf(r.symbol) :
                                /\ \A j \in EntriesOf(r.symbol) : j <= i
                                /\ r2.name = u_etfs[i].name

\* C18 witness: the upsert ran on a table holding a fund whose configured
\* name, provider, type and URL have all changed and a fund that is not
\* configured any more; the first has the new name, the second is stored as
\* it was.
C18_Witness ==
    /\ u_pc = "return"
    /\ RowOld \in u_before
    /\ RowOld \in etf_master
    /\ \E r \in u_before : \E i \in 1..Len(u_etfs) :
          /\ u_etfs[i].symbol = r.symbol
          /\ u_etfs[i].name # r.name
          /\ u_etfs[i].provider # r.provider
          /\ u_etfs[i].type # r.type
          /\ u_etfs[i].url # r.zyte_url
          /\ \E r2 \in etf_master : r2.symbol = r.symbol /\ r2.name = u_etfs[i].name

\* the scheduler process is past its startup: it runs, or it has ended
StartupOver == sched_pc \notin {"off", "imported", "constructed"}

\* C19: once the scheduler process is past its startup with a configuration
\* start accepts, exactly one job, 'etf_daily_scrape', is registered, and the
\* class its body constructs is bound, so that an execution is construction,
\* fetch_all, save_holdings.
C19_OneJobBoundToPipeline ==
    (StartupOver /\ config.file /\ ~start_trigger(config).raises) =>
        /\ jobs = {JobId}
        /\ "PostgresETFScraper" \in scraper_exports
        /\ sched_pc = "running"

\* a is b with some of its elements left out
RECURSIVE IsSubSeq(_, _)
IsSubSeq(a, b) ==
    IF a = <<>> THEN TRUE
    ELSE IF b = <<>> THEN FALSE
    ELSE IF Head(a) = Head(b) THEN IsSubSeq(Tail(a), Tail(b))
    ELSE IsSubSeq(a, Tail(b))

\* a candidate row whose parse fails: its last cell has a text that is not a
\* number
ParseFails(row) == Strip(row[Len(row)].text) # <<>> /\ Unconvertible(row)

\* C20: a row whose parse fails does not stop the parse.  The candidate rows
\* whose parse does not fail, those that follow a failed row in its table or
\* in a later table included, all appear in the result, in document order.
C20_ParseContinuesAfterBadRow ==
    p_pc = "return" =>
        LET good == SelectSeq(CandidateRows(Html(p_html)), LAMBDA row : ~ParseFails(row))
        IN  IsSubSeq([i \in 1..Len(good) |-> Strip(good[i][1].text)],
                     [k \in 1..Len(p_holdings) |-> p_holdings[k].issuer_name])

\* C20 witness: a table had a row whose parse fails before a row whose parse
\* does not, and the call returned the holding of the second.
C20_Witness ==
    /\ p_pc = "return"
    /\ \E i \in 1..Len(p_html) : \E j, k \in 2..Len(p_html[i]) :
          /\ j < k
          /\ p_html[i][j] = "Bad"
          /\ p_html[i][k] \in {"A", "B"}
          /\ p_holdings # <<>>
          /\ p_holdings[Len(p_holdings)].issuer_name = Strip(Row(p_html[i][k])[1].text)

\* C21: the dict fetch_all returns has one entry for every configured symbol
\* and no other; the entry of a symbol is the result of that fund's own task
\* (the parse of its own page, or the empty list), and every holding in it
\* carries that symbol, in whatever order the tasks completed.
C21_ResultsKeyedByOwnFund ==
    \A e \in Slots :
        pc[e] \in {"save", "done"} =>
            LET d == fetch_all_result(e)
            IN  /\ DOMAIN d = ConfiguredSymbols
                /\ \A f \in Funds :
                      /\ d[Etfs[f].symbol] \in OwnResult(e, f)
                      /\ \A i \in 1..Len(d[Etfs[f].symbol]) :
                            d[Etfs[f].symbol][i].etf_symbol = Etfs[f].symbol

\* C21 witness: fetch_all has returned after the task of the second fund
\* completed before the task of the first (its holdings carry the day before
\* midnight, the first fund's the day after), both with holdings.
C21_Witness ==
    \E e \in Slots :
        /\ pc[e] = "save"
        /\ results[e][1] # <<>>
        /\ results[e][2] # <<>>
        /\ results[e][2][1].trade_date < results[e][1][1].trade_date
        /\ fetch_all_result(e)[Etfs[2].symbol] = results[e][2]

\* the symbols that have a committed row in etf_master
MasterSymbols == {r.symbol : r \in etf_master}

\* C22: every committed holdings row has its fund in the master table.  An
\* execution that is past its constructor (about to fetch, fetching, saving
\* or done) has every configured fund committed in the master table, so the
\* upsert comes before the first fetch and the first insert; the rows of an
\* open transaction have their fund there too.
C22_HoldingsHaveMaster ==
    /\ \A i \in 1..Len(etf_holdings) : etf_holdings[i].etf_symbol \in MasterSymbols
    /\ \A e \in Slots :
          /\ pc[e] \in {"ready", "fetch", "save", "done"} =>
                ConfiguredSymbols \subseteq MasterSymbols
          /\ (\E f \in Funds : html[e][f] # "pending" \/ requests[e][f] # <<>>) =>
                ConfiguredSymbols \subseteq MasterSymbols
          /\ \A i \in 1..Len(txn[e]) : txn[e][i].etf_symbol \in MasterSymbols

\* C22 witness: a run has committed rows, holdings rows of both funds are
\* stored and both funds are in the master table.
C22_Witness ==
    /\ \A f \in Funds : \E i \in 1..Len(etf_holdings) :
          etf_holdings[i].etf_symbol = Etfs[f].symbol
    /\ ConfiguredSymbols \subseteq MasterSymbols
    /\ \E e \in Slots : pc[e] = "done" /\ Added(e) # <<>>

=============================================================================
